---- MODULE Spec2Model ----
(***************************************************************************)
(* Model of the weather bot in src/main.py: the subscription, preference   *)
(* and statistics stores, the command handlers that change them, the rate  *)
(* limiter, the two scheduled sweeps and the rule evaluators.              *)
(*                                                                         *)
(* The module is modelled fully loaded: every top-level definition of      *)
(* main.py has been executed, main() has loaded the saved data (no saved   *)
(* files yet) and started the scheduler.  A name that main.py defines more *)
(* than once is bound to its LAST definition (Python rebinding), so the    *)
(* scheduler runs send_weather_alerts (2240), send_smart_notifications     *)
(* (2261) and they call check_weather_alerts (2287).  Command handlers are *)
(* registered with the dispatcher when they are defined, so both           *)
(* definitions of /subscribe and /unsubscribe stay registered; each one is *)
(* an operation of the model.                                              *)
(***************************************************************************)
EXTENDS Integers, Sequences, FiniteSets, TLC

VARIABLES
    weather_subscriptions,  \* in-memory dict user_id -> list of cities (main.py:245)
    user_preferences,       \* in-memory dict user_id -> preferences (main.py:249)
    db_subscriptions,       \* sqlite table subscriptions (main.py:2958)
    db_user_preferences,    \* sqlite table user_preferences (main.py:2969)
    db_weather_stats,       \* sqlite table weather_stats (main.py:2982)
    reply,                  \* the last answer a command handler sent
    now,                    \* time_module.time(), in ticks
    rate_limit_dict,        \* user_id -> time of the last accepted request (main.py:138)
    rate_limit_lock,        \* asyncio.Lock (main.py:139): its holder and its waiters
    requests,               \* the rate-limited requests in flight and their outcomes
    jobs,                   \* the two scheduled sweeps (main.py:2115, 2116)
    evaluation,             \* the last call of an evaluator: its inputs and result
    stat_appends            \* history: the save_weather_stats calls made per city

storeVars == <<weather_subscriptions, user_preferences, db_subscriptions,
               db_user_preferences, db_weather_stats, reply>>

limiterVars == <<rate_limit_dict, rate_limit_lock, requests>>

vars == <<weather_subscriptions, user_preferences, db_subscriptions,
          db_user_preferences, db_weather_stats, reply, now, rate_limit_dict,
          rate_limit_lock, requests, jobs, evaluation, stat_appends>>

\* Placeholder of an answer that names no city.
NoCity == <<"-", "-">>

(***************************************************************************)
(* Users and city names.  A city name is a pair <<letters, casing>>; two   *)
(* names with the same letters differ at most in letter case.              *)
(***************************************************************************)
Users == {1, 2}

Casings == {"lower", "title"}

Locations == {"moscow", "kazan"}

Names == Locations \X Casings

\* str.lower(): maps every casing of a name to its lower-case form.
Lower(name) == <<name[1], "lower">>

(***************************************************************************)
(* Python dicts keep insertion order: a dict is a sequence of entries      *)
(* [k |-> key, v |-> value] with pairwise different keys.                  *)
(***************************************************************************)
DictKeys(d) == {d[i].k : i \in 1..Len(d)}

DictHas(d, key) == key \in DictKeys(d)

DictGet(d, key) == d[CHOOSE i \in 1..Len(d) : d[i].k = key].v

DictSet(d, key, value) ==
    IF DictHas(d, key)
    THEN [i \in 1..Len(d) |-> IF d[i].k = key THEN [k |-> key, v |-> value] ELSE d[i]]
    ELSE Append(d, [k |-> key, v |-> value])

\* defaultdict(list).__getitem__: a missing key is inserted with an empty list.
DefaultDictTouch(d, key) == IF DictHas(d, key) THEN d ELSE Append(d, [k |-> key, v |-> <<>>])

\* The list stored for key, the empty list when the key is absent.
SubsOf(d, key) == IF DictHas(d, key) THEN DictGet(d, key) ELSE <<>>

\* list.pop(i) for a 1-based position i.
ListPop(s, i) == [j \in 1..(Len(s) - 1) |-> IF j < i THEN s[j] ELSE s[j + 1]]

(***************************************************************************)
(* Preferences.                                                            *)
(***************************************************************************)
\* The default preferences every handler builds (main.py:1388, 1787, 2532).
DefaultPrefs ==
    [notification_time |-> <<9, 0>>,
     temp_range        |-> [min |-> 15, max |-> 25],
     wind_threshold    |-> 10,
     rain_alerts       |-> TRUE,
     activities        |-> <<>>]

(***************************************************************************)
(* The sqlite store.  Every store function opens its own connection with   *)
(* get_db(), which closes it in its finally block.  sqlite3 opens a        *)
(* transaction implicitly before INSERT / REPLACE / DELETE, and            *)
(* Connection.close() rolls back a transaction that was not committed.     *)
(***************************************************************************)
\* The table as it is on disk after get_db() has closed the connection:
\* the transaction's result when it was committed, the old table otherwise.
get_db(table, written, committed) == IF committed THEN written ELSE table

\* INSERT OR REPLACE with primary key (user_id, city).
InsertOrReplaceSubscription(table, user_id, city) ==
    {r \in table : ~(r.user_id = user_id /\ r.city = city)}
        \cup {[user_id |-> user_id, city |-> city]}

\* save_subscription never calls conn.commit().
save_subscription(table, user_id, city) ==
    get_db(table, InsertOrReplaceSubscription(table, user_id, city), FALSE)

\* SELECT city, lat, lon FROM subscriptions WHERE user_id = ?
get_user_subscriptions(table, user_id) == {r.city : r \in {x \in table : x.user_id = user_id}}

\* DELETE FROM subscriptions WHERE user_id = ? AND city = ?  (main.py:1461),
\* not committed either.
delete_subscription(table, user_id, city) ==
    get_db(table, {r \in table : ~(r.user_id = user_id /\ r.city = city)}, FALSE)

\* The row save_user_preferences_db writes: the columns of user_preferences,
\* rain_alerts as sqlite stores a bool (0 or 1), activities as json.dumps of
\* the list.
PrefsRow(user_id, preferences) ==
    [user_id           |-> user_id,
     notification_time |-> preferences.notification_time,
     temp_min          |-> preferences.temp_range.min,
     temp_max          |-> preferences.temp_range.max,
     wind_threshold    |-> preferences.wind_threshold,
     rain_alerts       |-> IF preferences.rain_alerts THEN 1 ELSE 0,
     activities        |-> preferences.activities]

\* INSERT OR REPLACE INTO user_preferences, primary key user_id; no commit.
save_user_preferences_db(table, user_id, preferences) ==
    get_db(table,
           {r \in table : r.user_id # user_id} \cup {PrefsRow(user_id, preferences)},
           FALSE)

\* The dict get_user_preferences_db builds from a row.
PrefsOfRow(row) ==
    [notification_time |-> row.notification_time,
     temp_range        |-> [min |-> row.temp_min, max |-> row.temp_max],
     wind_threshold    |-> row.wind_threshold,
     rain_alerts       |-> row.rain_alerts # 0,
     activities        |-> row.activities]

\* SELECT * FROM user_preferences WHERE user_id = ?, fetchone(): the set holding
\* the row's preferences, the empty set (Python's None) when there is no row.
get_user_preferences_db(table, user_id) ==
    {PrefsOfRow(r) : r \in {x \in table : x.user_id = user_id}}

\* INSERT INTO weather_stats, primary key (city, timestamp); no commit.
save_weather_stats(table, city, timestamp, sample) ==
    get_db(table,
           table \cup {[city |-> city, timestamp |-> timestamp, sample |-> sample]},
           FALSE)

(***************************************************************************)
(* Command handlers.  An input `result` is what get_city_coordinates gave  *)
(* for the command's argument: "NoArg" when the command had no argument,   *)
(* "NotFound" when the resolver returned None, else the resolved name.     *)
(***************************************************************************)
NoArg == <<"NoArg", "-">>

NotFound == <<"NotFound", "-">>

\* An answer; shown holds the preferences the answer displays, if any.
Answer(op, user_id, city, msg) ==
    [op |-> op, to |-> user_id, city |-> city, msg |-> msg, shown |-> {}]

\* The answer of /preferences: the settings text built from prefs.
ShowPrefs(user_id, prefs) ==
    [op |-> "preferences", to |-> user_id, city |-> NoCity, msg |-> "Shown",
     shown |-> {prefs}]

\* any(sub[0].lower() == city_name.lower() for sub in subscriptions)
AlreadySubscribed(cities, city_name) == \E c \in cities : Lower(c) = Lower(city_name)

SeqRange(s) == {s[i] : i \in 1..Len(s)}

\* subscribe_command as first defined (main.py:1338): the sqlite store.
subscribe_command_db(user_id, result, fetch_ok, sample, timestamp) ==
    LET subscriptions == get_user_subscriptions(db_subscriptions, user_id)
        subs1  == save_subscription(db_subscriptions, user_id, result)
        prefs  == get_user_preferences_db(db_user_preferences, user_id)
        prefs1 == IF prefs = {}
                  THEN save_user_preferences_db(db_user_preferences, user_id, DefaultPrefs)
                  ELSE db_user_preferences
    IN  /\ UNCHANGED <<weather_subscriptions, user_preferences>>
        /\ IF result = NoArg
           THEN /\ reply' = Answer("subscribe", user_id, NoCity, "Usage")
                /\ UNCHANGED <<db_subscriptions, db_user_preferences, db_weather_stats>>
           ELSE IF result = NotFound
           THEN /\ reply' = Answer("subscribe", user_id, NoCity, "NotFound")
                /\ UNCHANGED <<db_subscriptions, db_user_preferences, db_weather_stats>>
           ELSE IF AlreadySubscribed(subscriptions, result)
           THEN /\ reply' = Answer("subscribe", user_id, result, "AlreadyExists")
                /\ UNCHANGED <<db_subscriptions, db_user_preferences, db_weather_stats>>
           ELSE IF Cardinality(subscriptions) >= 5
           THEN /\ reply' = Answer("subscribe", user_id, result, "CapExceeded")
                /\ UNCHANGED <<db_subscriptions, db_user_preferences, db_weather_stats>>
           ELSE /\ db_subscriptions' = subs1
                /\ db_user_preferences' = prefs1
                /\ IF fetch_ok
                   THEN /\ db_weather_stats' =
                              save_weather_stats(db_weather_stats, result, timestamp, sample)
                        /\ reply' = Answer("subscribe", user_id, result, "Added")
                   ELSE /\ UNCHANGED db_weather_stats
                        /\ reply' = Answer("subscribe", user_id, result, "Error")

\* Mutant of AlreadyInList: the names are compared without .lower().
AlreadyInList_case_sensitive(cities, city_name) == city_name \in SeqRange(cities)

\* any(city_data[0].lower() == city_name.lower() for city_data in ...)
AlreadyInList(cities, city_name) == AlreadySubscribed(SeqRange(cities), city_name)

\* subscribe_command as defined last (main.py:2493): the in-memory dict.
subscribe_command(user_id, result) ==
    LET touched == DefaultDictTouch(weather_subscriptions, user_id)
        cities  == DictGet(touched, user_id)
    IN  /\ UNCHANGED <<db_subscriptions, db_user_preferences, db_weather_stats>>
        /\ IF result = NoArg
           THEN /\ reply' = Answer("subscribe", user_id, NoCity, "Usage")
                /\ UNCHANGED <<weather_subscriptions, user_preferences>>
           ELSE IF result = NotFound
           THEN /\ reply' = Answer("subscribe", user_id, NoCity, "NotFound")
                /\ UNCHANGED <<weather_subscriptions, user_preferences>>
           ELSE IF AlreadyInList(cities, result)
           THEN /\ reply' = Answer("subscribe", user_id, result, "AlreadyExists")
                /\ weather_subscriptions' = touched
                /\ UNCHANGED user_preferences
           ELSE /\ weather_subscriptions' = DictSet(touched, user_id, Append(cities, result))
                /\ user_preferences' =
                       IF DictHas(user_preferences, user_id)
                       THEN user_preferences
                       ELSE DictSet(user_preferences, user_id, DefaultPrefs)
                /\ reply' = Answer("subscribe", user_id, result, "Added")

\* subscribe_command (main.py:2493) when `await message.answer` of the
\* confirmation raises (main.py:2540): the list and the preferences have been
\* written, and the handler's `except Exception` answers with the failure
\* message (main.py:2551-2553).
subscribe_command_unconfirmed(user_id, result) ==
    LET touched == DefaultDictTouch(weather_subscriptions, user_id)
        cities  == DictGet(touched, user_id)
    IN  /\ result \notin {NoArg, NotFound}
        /\ ~AlreadyInList(cities, result)
        /\ weather_subscriptions' = DictSet(touched, user_id, Append(cities, result))
        /\ user_preferences' =
               IF DictHas(user_preferences, user_id)
               THEN user_preferences
               ELSE DictSet(user_preferences, user_id, DefaultPrefs)
        /\ reply' = Answer("subscribe", user_id, result, "Error")
        /\ UNCHANGED <<db_subscriptions, db_user_preferences, db_weather_stats>>

\* unsubscribe_command as first defined (main.py:1437): the sqlite store.
\* `city` is the command's argument as typed (NoArg when missing).
unsubscribe_command_db(user_id, city) ==
    LET subscriptions == get_user_subscriptions(db_subscriptions, user_id)
        matches == {c \in subscriptions : Lower(c) = Lower(city)}
    IN  /\ UNCHANGED <<weather_subscriptions, user_preferences,
                       db_user_preferences, db_weather_stats>>
        /\ IF city = NoArg
           THEN /\ reply' = Answer("unsubscribe", user_id, NoCity, "Usage")
                /\ UNCHANGED db_subscriptions
           ELSE IF subscriptions = {}
           THEN /\ reply' = Answer("unsubscribe", user_id, NoCity, "NoSubscriptions")
                /\ UNCHANGED db_subscriptions
           ELSE IF matches # {}
           THEN \E subscribed_city \in matches :
                    /\ db_subscriptions' =
                           delete_subscription(db_subscriptions, user_id, subscribed_city)
                    /\ reply' = Answer("unsubscribe", user_id, subscribed_city, "Removed")
           ELSE /\ reply' = Answer("unsubscribe", user_id, city, "NotFound")
                /\ UNCHANGED db_subscriptions

\* Mutant of FirstMatch: the names are compared without .lower().
FirstMatch_case_sensitive(cities, city) ==
    LET hits == {i \in 1..Len(cities) : cities[i] = city}
    IN  IF hits = {} THEN 0 ELSE CHOOSE i \in hits : \A j \in hits : i <= j

\* The first position of the list whose city matches, 0 when none does
\* (the enumerate loop of main.py:2579).
FirstMatch(cities, city) ==
    LET hits == {i \in 1..Len(cities) : Lower(cities[i]) = Lower(city)}
    IN  IF hits = {} THEN 0 ELSE CHOOSE i \in hits : \A j \in hits : i <= j

\* unsubscribe_command as defined last (main.py:2557): the in-memory dict.
unsubscribe_command(user_id, city) ==
    LET cities == SubsOf(weather_subscriptions, user_id)
        i == FirstMatch(cities, city)
    IN  /\ UNCHANGED <<user_preferences, db_subscriptions,
                       db_user_preferences, db_weather_stats>>
        /\ IF city = NoArg
           THEN /\ reply' = Answer("unsubscribe", user_id, NoCity, "Usage")
                /\ UNCHANGED weather_subscriptions
           ELSE IF cities = <<>>
           THEN /\ reply' = Answer("unsubscribe", user_id, NoCity, "NoSubscriptions")
                /\ UNCHANGED weather_subscriptions
           ELSE IF i # 0
           THEN /\ weather_subscriptions' =
                       DictSet(weather_subscriptions, user_id, ListPop(cities, i))
                /\ reply' = Answer("unsubscribe", user_id, cities[i], "Removed")
           ELSE /\ reply' = Answer("unsubscribe", user_id, city, "NotFound")
                /\ UNCHANGED weather_subscriptions

\* The preferences a handler works on: the stored ones, or the defaults it
\* builds when get_user_preferences_db returned None.
PrefsOrDefault(prefs) == IF prefs = {} THEN DefaultPrefs ELSE CHOOSE p \in prefs : TRUE

\* What a handler reads as the user's preferences (main.py:1783, 1888).
StoredPrefs(table, user_id) == PrefsOrDefault(get_user_preferences_db(table, user_id))

\* Mutant of RangeRejected: min_temp > max_temp for min_temp >= max_temp.
RangeRejected_equal_allowed(min_temp, max_temp) ==
    min_temp > max_temp \/ min_temp < -50 \/ max_temp > 50

\* The two range tests of /temprange that raise ValueError (main.py:1871, 1874).
RangeRejected(min_temp, max_temp) ==
    min_temp >= max_temp \/ min_temp < -50 \/ max_temp > 50

\* temprange_command (main.py:1861).  well_formed: the text split into the
\* command and two integers; min_temp, max_temp: those integers.
temprange_command(user_id, well_formed, min_temp, max_temp) ==
    LET prefs == PrefsOrDefault(get_user_preferences_db(db_user_preferences, user_id))
        prefs1 == [prefs EXCEPT !.temp_range = [min |-> min_temp, max |-> max_temp]]
    IN  /\ UNCHANGED <<weather_subscriptions, user_preferences,
                       db_subscriptions, db_weather_stats>>
        /\ IF ~well_formed \/ RangeRejected(min_temp, max_temp)
           THEN /\ reply' = Answer("temprange", user_id, NoCity, "InvalidRange")
                /\ UNCHANGED db_user_preferences
           ELSE /\ db_user_preferences' =
                       save_user_preferences_db(db_user_preferences, user_id, prefs1)
                /\ reply' = Answer("temprange", user_id, NoCity, "Ok")

\* The text of a time argument: the number of digits and the value of its
\* hour and minute parts, and whether a colon separates them.
TimeText(hour_digits, hour, minute_digits, minute, colon) ==
    [hour_digits |-> hour_digits, hour |-> hour,
     minute_digits |-> minute_digits, minute |-> minute, colon |-> colon]

\* Whether datetime.strptime(time_str, '%H:%M') returns (main.py:1829): %H and
\* %M take one or two digits, 0..23 and 0..59.
strptime_HM(text) ==
    /\ text.colon
    /\ text.hour_digits \in {1, 2} /\ text.hour <= 23
    /\ text.minute_digits \in {1, 2} /\ text.minute <= 59

\* notifytime_command (main.py:1821).  well_formed: the text holds an argument
\* that strptime('%H:%M') accepts; time_str: that argument as <<hour, minute>>.
notifytime_command(user_id, well_formed, time_str) ==
    LET prefs == PrefsOrDefault(get_user_preferences_db(db_user_preferences, user_id))
        prefs1 == [prefs EXCEPT !.notification_time = time_str]
    IN  /\ UNCHANGED <<weather_subscriptions, user_preferences,
                       db_subscriptions, db_weather_stats>>
        /\ IF ~well_formed
           THEN /\ reply' = Answer("notifytime", user_id, NoCity, "InvalidTime")
                /\ UNCHANGED db_user_preferences
           ELSE /\ db_user_preferences' =
                       save_user_preferences_db(db_user_preferences, user_id, prefs1)
                /\ reply' = Answer("notifytime", user_id, NoCity, "Ok")

\* wind_command (main.py:1914).  well_formed: the text holds an argument that
\* int() accepts; threshold: that integer.
wind_command(user_id, well_formed, threshold) ==
    LET prefs == PrefsOrDefault(get_user_preferences_db(db_user_preferences, user_id))
        prefs1 == [prefs EXCEPT !.wind_threshold = threshold]
    IN  /\ UNCHANGED <<weather_subscriptions, user_preferences,
                       db_subscriptions, db_weather_stats>>
        /\ IF ~well_formed \/ threshold < 0 \/ threshold > 50
           THEN /\ reply' = Answer("wind", user_id, NoCity, "InvalidThreshold")
                /\ UNCHANGED db_user_preferences
           ELSE /\ db_user_preferences' =
                       save_user_preferences_db(db_user_preferences, user_id, prefs1)
                /\ reply' = Answer("wind", user_id, NoCity, "Ok")

\* rainalerts_command (main.py:1954).  well_formed: the argument is on or off
\* in any letter case; on: it is on.
rainalerts_command(user_id, well_formed, on) ==
    LET prefs == PrefsOrDefault(get_user_preferences_db(db_user_preferences, user_id))
        prefs1 == [prefs EXCEPT !.rain_alerts = on]
    IN  /\ UNCHANGED <<weather_subscriptions, user_preferences,
                       db_subscriptions, db_weather_stats>>
        /\ IF ~well_formed
           THEN /\ reply' = Answer("rainalerts", user_id, NoCity, "InvalidState")
                /\ UNCHANGED db_user_preferences
           ELSE /\ db_user_preferences' =
                       save_user_preferences_db(db_user_preferences, user_id, prefs1)
                /\ reply' = Answer("rainalerts", user_id, NoCity,
                                   IF on THEN "On" ELSE "Off")

\* list.remove(x): the list without the first occurrence of x.
ListRemove(s, x) ==
    ListPop(s, CHOOSE i \in 1..Len(s) : s[i] = x /\ \A j \in 1..(i - 1) : s[j] # x)

\* process_activity_callback (main.py:2046): a press of the button of
\* `activity`.  The answer is the keyboard rebuilt from the local prefs.
process_activity_callback(user_id, activity) ==
    LET prefs == PrefsOrDefault(get_user_preferences_db(db_user_preferences, user_id))
        prefs1 == [prefs EXCEPT !.activities =
                      IF activity \in SeqRange(@)
                      THEN ListRemove(@, activity)
                      ELSE Append(@, activity)]
    IN  /\ UNCHANGED <<weather_subscriptions, user_preferences,
                       db_subscriptions, db_weather_stats>>
        /\ db_user_preferences' =
               save_user_preferences_db(db_user_preferences, user_id, prefs1)
        /\ reply' = [op |-> "activity", to |-> user_id, city |-> NoCity,
                     msg |-> "Updated", shown |-> {prefs1}]

\* preferences_command as first defined (main.py:1778): get-or-create.
preferences_command_db(user_id) ==
    LET prefs == get_user_preferences_db(db_user_preferences, user_id)
    IN  /\ UNCHANGED <<weather_subscriptions, user_preferences,
                       db_subscriptions, db_weather_stats>>
        /\ db_user_preferences' =
               IF prefs = {}
               THEN save_user_preferences_db(db_user_preferences, user_id, DefaultPrefs)
               ELSE db_user_preferences
        /\ reply' = ShowPrefs(user_id, PrefsOrDefault(prefs))

\* preferences_command as defined last (main.py:2764): get-or-create in the
\* in-memory dict.
preferences_command(user_id) ==
    LET created == IF DictHas(user_preferences, user_id)
                   THEN user_preferences
                   ELSE DictSet(user_preferences, user_id, DefaultPrefs)
    IN  /\ UNCHANGED <<weather_subscriptions, db_subscriptions,
                       db_user_preferences, db_weather_stats>>
        /\ user_preferences' = created
        /\ reply' = ShowPrefs(user_id, DictGet(created, user_id))

(***************************************************************************)
(* The rate limiter: the wrapper that @rate_limit(RATE_LIMIT) puts around  *)
(* a handler (main.py:160).  The clock counts ticks, TicksPerSecond of     *)
(* them to a second.  A request is handled by one coroutine; its steps are *)
(* separated where the wrapper awaits: entering `async with                *)
(* rate_limit_lock` when the lock is taken, and `await message.answer`.    *)
(***************************************************************************)
RATE_LIMIT == 1

TicksPerSecond == 2

\* The wall clock when the process starts, and how far the model lets it run.
StartTime == 4

MaxTicks == 4

MaxRequests == 4

Requests == 1..MaxRequests

\* limit, in ticks.
Limit == RATE_LIMIT * TicksPerSecond

Tick ==
    /\ now < StartTime + MaxTicks
    /\ now' = now + 1

\* Mutant of TooSoon: the rejection test with <= for <.
TooSoon_inclusive(current_time, last_time, limit) == current_time - last_time <= limit

\* current_time - last_time < limit  (main.py:170)
TooSoon(current_time, last_time, limit) == current_time - last_time < limit

\* Mutant of RecordAccepted: the entry is not written.
RecordAccepted_lost(entries, user_id, current_time) == entries

\* rate_limit_dict[user_id] = current_time  (main.py:175)
RecordAccepted(entries, user_id, current_time) ==
    [entries EXCEPT ![user_id] = current_time]

\* The number of requests that have passed the check so far.
Checked == Cardinality({r \in Requests : requests[r].order > 0})

\* Mutant of RateLimitCheck: a rejected request writes the entry too.
RateLimitCheck_extends(r, user_id, waiters) ==
    LET last_time    == rate_limit_dict[user_id]
        current_time == now
    IN  /\ rate_limit_dict' = RecordAccepted(rate_limit_dict, user_id, current_time)
        /\ IF TooSoon(current_time, last_time, Limit)
           THEN /\ requests' = [requests EXCEPT ![r] =
                       [pc |-> "answering", user |-> user_id,
                        at |-> current_time, order |-> Checked + 1]]
                /\ rate_limit_lock' = [holder |-> r, waiters |-> waiters]
           ELSE /\ requests' = [requests EXCEPT ![r] =
                       [pc |-> "accepted", user |-> user_id,
                        at |-> current_time, order |-> Checked + 1]]
                /\ rate_limit_lock' = [holder |-> 0, waiters |-> waiters]

\* The body of `async with rate_limit_lock` up to its first await, run by
\* request r of user_id once it holds the lock (main.py:168-175).
RateLimitCheck(r, user_id, waiters) ==
    LET last_time    == rate_limit_dict[user_id]
        current_time == now
    IN  IF TooSoon(current_time, last_time, Limit)
        THEN \* await message.answer(...) with the lock held
             /\ requests' = [requests EXCEPT ![r] =
                    [pc |-> "answering", user |-> user_id,
                     at |-> current_time, order |-> Checked + 1]]
             /\ rate_limit_lock' = [holder |-> r, waiters |-> waiters]
             /\ UNCHANGED rate_limit_dict
        ELSE \* the entry is written, the lock released, the handler runs
             /\ rate_limit_dict' = RecordAccepted(rate_limit_dict, user_id, current_time)
             /\ requests' = [requests EXCEPT ![r] =
                    [pc |-> "accepted", user |-> user_id,
                     at |-> current_time, order |-> Checked + 1]]
             /\ rate_limit_lock' = [holder |-> 0, waiters |-> waiters]

\* A request of user_id arrives: wrapper() runs up to its first await.
\* Lock.acquire() returns at once when the lock is free and nobody waits,
\* and queues the request otherwise.
RateLimitEnter(r, user_id) ==
    /\ requests[r].pc = "new"
    /\ \A q \in Requests : q < r => requests[q].pc # "new"
    /\ IF rate_limit_lock.holder = 0 /\ rate_limit_lock.waiters = <<>>
       THEN RateLimitCheck(r, user_id, <<>>)
       ELSE /\ requests' = [requests EXCEPT ![r] =
                   [pc |-> "waiting", user |-> user_id, at |-> 0, order |-> 0]]
            /\ rate_limit_lock' =
                   [rate_limit_lock EXCEPT !.waiters = Append(@, r)]
            /\ UNCHANGED rate_limit_dict
    /\ UNCHANGED now

\* The lock was released: its first waiter acquires it and runs the check.
RateLimitWake(r) ==
    /\ requests[r].pc = "waiting"
    /\ rate_limit_lock.holder = 0
    /\ rate_limit_lock.waiters # <<>>
    /\ Head(rate_limit_lock.waiters) = r
    /\ RateLimitCheck(r, requests[r].user, Tail(rate_limit_lock.waiters))
    /\ UNCHANGED now

\* message.answer returned (or raised): the wrapper leaves the `async with`
\* block, which releases the lock, and returns without calling the handler.
RateLimitAnswered(r) ==
    /\ requests[r].pc = "answering"
    /\ requests' = [requests EXCEPT ![r].pc = "rejected"]
    /\ rate_limit_lock' = [rate_limit_lock EXCEPT !.holder = 0]
    /\ UNCHANGED <<rate_limit_dict, now>>

(***************************************************************************)
(* The evaluators.  A snapshot is the provider's answer: has_rain and      *)
(* has_snow say whether the answer holds the key 'rain' / 'snow', rain_1h  *)
(* and snow_1h are its '1h' entry (0 when the key is missing), visibility  *)
(* is in metres, weather_id is weather[0].id.  A message is a record       *)
(* [kind, about]; about names the activities of a suitability message.     *)
(***************************************************************************)
Message(kind) == [kind |-> kind, about |-> {}]

Emit(condition, kind) == IF condition THEN <<Message(kind)>> ELSE <<>>

\* check_weather_alerts as defined last (main.py:2287), the definition that
\* send_weather_alerts and alerts_command call.
check_weather_alerts(weather_data) ==
    (IF weather_data.temp > 35 THEN <<Message("heat")>>
     ELSE IF weather_data.temp < -25 THEN <<Message("cold")>>
     ELSE <<>>)
        \o Emit(weather_data.wind_speed # 0 /\ weather_data.wind_speed > 15, "storm_wind")
        \o Emit(weather_data.has_rain /\ weather_data.rain_1h > 10, "heavy_rain")
        \o Emit(weather_data.has_snow /\ weather_data.snow_1h > 5, "heavy_snow")

\* Mutant of RainNoticeDue: the user's rain_alerts switch is not read.
RainNoticeDue_unconditional(weather_data, preferences) == weather_data.has_rain

\* `if preferences.get('rain_alerts', True) and 'rain' in weather_data`
\* (main.py:2338).
RainNoticeDue(weather_data, preferences) ==
    preferences.rain_alerts /\ weather_data.has_rain

\* Mutant of check_smart_notifications: the wind notice is left to the storm
\* warning when the wind is above the fixed threshold.
check_smart_notifications_below_storm(weather_data, preferences) ==
    (IF weather_data.temp < preferences.temp_range.min THEN <<Message("temp_below")>>
     ELSE IF weather_data.temp > preferences.temp_range.max THEN <<Message("temp_above")>>
     ELSE <<>>)
        \o Emit(weather_data.wind_speed # 0
                    /\ weather_data.wind_speed > preferences.wind_threshold
                    /\ weather_data.wind_speed <= 15, "wind_notice")
        \o Emit(preferences.rain_alerts /\ weather_data.has_rain, "rain_notice")

\* check_smart_notifications (main.py:2317).
check_smart_notifications(weather_data, preferences) ==
    (IF weather_data.temp < preferences.temp_range.min THEN <<Message("temp_below")>>
     ELSE IF weather_data.temp > preferences.temp_range.max THEN <<Message("temp_above")>>
     ELSE <<>>)
        \o Emit(weather_data.wind_speed # 0
                    /\ weather_data.wind_speed > preferences.wind_threshold, "wind_notice")
        \o Emit(RainNoticeDue(weather_data, preferences), "rain_notice")

\* The activity catalog (main.py:260).
ACTIVITIES ==
    [running |-> [temp_range |-> <<5, 20>>,  wind_max |-> 5,  no_rain |-> TRUE],
     cycling |-> [temp_range |-> <<10, 25>>, wind_max |-> 7,  no_rain |-> TRUE],
     walking |-> [temp_range |-> <<15, 25>>, wind_max |-> 10, no_rain |-> TRUE],
     picnic  |-> [temp_range |-> <<20, 27>>, wind_max |-> 5,  no_rain |-> TRUE]]

\* The suitability test of an activity of the catalog (main.py:1706).
Suitable(activity, weather_data) ==
    LET conditions == ACTIVITIES[activity]
    IN  /\ conditions.temp_range[1] <= weather_data.temp
        /\ weather_data.temp <= conditions.temp_range[2]
        /\ weather_data.wind_speed <= conditions.wind_max
        /\ (~conditions.no_rain \/ ~weather_data.has_rain)

Snapshot(temp, wind_speed, has_rain, rain_1h, has_snow, snow_1h, visibility, weather_id) ==
    [temp |-> temp, wind_speed |-> wind_speed, has_rain |-> has_rain, rain_1h |-> rain_1h,
     has_snow |-> has_snow, snow_1h |-> snow_1h, visibility |-> visibility,
     weather_id |-> weather_id]

\* A call of check_weather_alerts.
EvaluateAlerts(weather_data) ==
    evaluation' = [kind |-> "alerts", weather |-> weather_data, prefs |-> DefaultPrefs,
                   result |-> check_weather_alerts(weather_data)]

\* A call of check_smart_notifications.
EvaluateSmart(weather_data, preferences) ==
    evaluation' = [kind |-> "smart", weather |-> weather_data, prefs |-> preferences,
                   result |-> check_smart_notifications(weather_data, preferences)]

(***************************************************************************)
(* The scheduled sweeps (main.py:2240, 2261).  A sweep is one coroutine;   *)
(* its steps are separated where it awaits: `await get_weather_data` and   *)
(* `await bot.send_message`.  Command handlers run between those steps.    *)
(*                                                                         *)
(* The outer loop iterates weather_subscriptions.items(): the iterator     *)
(* keeps the dict's length at its creation (size) and its position (ui),   *)
(* and raises RuntimeError when the length differs at a next().  The inner *)
(* loop iterates the user's list object itself, by position (ci).  log     *)
(* tells what became of each pair the sweep reached, and pairs what the    *)
(* dict held when the sweep started.                                       *)
(***************************************************************************)
JobKinds == {"send_weather_alerts", "send_smart_notifications"}

IdleJob ==
    [pc |-> "idle", size |-> 0, ui |-> 0, ci |-> 0, user |-> 0, city |-> NoCity,
     prefs |-> {}, alerts |-> <<>>, pairs |-> {}, log |-> <<>>, result |-> "none"]

\* The (user, city) pairs of a subscriptions dict.
PairsOf(subs) ==
    {[user |-> subs[i].k, city |-> subs[i].v[j]] :
        <<i, j>> \in {x \in (1..Len(subs)) \X (1..2) : x[2] <= Len(subs[x[1]].v)}}

Logged(j, status) ==
    [j EXCEPT !.log = Append(@, [user |-> j.user, city |-> j.city, status |-> status]),
              !.alerts = <<>>]

\* Mutant of Ended: the handler around the loops raises the exception again,
\* as the one of log_execution does (main.py:201), and the coroutine does not
\* return.
Ended_reraise(j, result) ==
    [j EXCEPT !.pc = IF result = "raised" THEN "failed" ELSE "idle", !.result = result]

\* The coroutine returns: normally ("completed"), or through the
\* `except Exception` around both loops ("raised").
Ended(j, result) == [j EXCEPT !.pc = "idle", !.result = result]

\* Mutant of SkipUser: the smart sweep goes on with the defaults for a user
\* without stored preferences, as the command handlers do.
SkipUser_never(job, prefs) == FALSE

\* `if not prefs: continue` of the smart sweep (main.py:2267).
SkipUser(job, prefs) == job = "send_smart_notifications" /\ prefs = {}

RECURSIVE OuterNext(_, _)

\* next() of the inner loop: the next city of the user's list, or on to the
\* next user when the list is exhausted.
InnerNext(job, j) ==
    LET cities == weather_subscriptions[j.ui].v
    IN  IF j.ci < Len(cities)
        THEN [j EXCEPT !.pc = "fetch", !.ci = @ + 1, !.city = cities[j.ci + 1]]
        ELSE OuterNext(job, j)

\* next() of the outer loop.  The smart sweep reads the user's preferences
\* and skips the user when there are none (main.py:2266).
OuterNext(job, j) ==
    IF Len(weather_subscriptions) # j.size THEN Ended(j, "raised")
    ELSE IF j.ui >= Len(weather_subscriptions) THEN Ended(j, "completed")
    ELSE LET entry == weather_subscriptions[j.ui + 1]
             prefs == IF job = "send_smart_notifications"
                      THEN get_user_preferences_db(db_user_preferences, entry.k)
                      ELSE {}
             j1 == [j EXCEPT !.ui = @ + 1, !.ci = 0, !.user = entry.k, !.prefs = prefs]
         IN  IF SkipUser(job, prefs)
             THEN OuterNext(job, j1)
             ELSE InnerNext(job, j1)

\* The scheduler fires the job at wall-clock hour `hour`, which neither sweep
\* reads.  One instance of a job runs at a time (APScheduler's default
\* max_instances).
SweepStart(job, hour) ==
    /\ jobs[job].pc = "idle"
    /\ jobs' = [jobs EXCEPT ![job] =
           OuterNext(job, [IdleJob EXCEPT !.size = Len(weather_subscriptions),
                                          !.pairs = PairsOf(weather_subscriptions)])]

\* Mutant of ShouldSend: `if alerts is not None`, true of every list.
ShouldSend_not_none(found) == TRUE

\* `if alerts:` (main.py:2252) and `if notifications:` (main.py:2278): a list
\* is true when it is not empty.
ShouldSend(found) == found # <<>>

\* get_weather_data returned the snapshot weather_data; the pair is evaluated.
FetchOk(job, weather_data) ==
    /\ jobs[job].pc = "fetch"
    /\ LET j == jobs[job]
           found == IF job = "send_smart_notifications"
                    THEN check_smart_notifications(weather_data, PrefsOrDefault(j.prefs))
                    ELSE check_weather_alerts(weather_data)
       IN  jobs' = [jobs EXCEPT ![job] =
               IF ShouldSend(found)
               THEN [j EXCEPT !.pc = "send", !.alerts = found]
               ELSE InnerNext(job, Logged(j, "quiet"))]

\* get_weather_data caught an exception (network error, timeout, status other
\* than 200) and returned None: `continue` (main.py:2247, 2351).
FetchFail(job) ==
    /\ jobs[job].pc = "fetch"
    /\ jobs' = [jobs EXCEPT ![job] = InnerNext(job, Logged(jobs[job], "skipped"))]

\* get_weather_data returned a JSON document on which the evaluator raises
\* (its `.get` calls need a dict of dicts): the exception leaves both loops
\* (main.py:2250, 2258).
EvalFail(job) ==
    /\ jobs[job].pc = "fetch"
    /\ jobs' = [jobs EXCEPT ![job] = Ended(Logged(jobs[job], "eval_failed"), "raised")]

\* bot.send_message returned.
SendOk(job) ==
    /\ jobs[job].pc = "send"
    /\ jobs' = [jobs EXCEPT ![job] = InnerNext(job, Logged(jobs[job], "sent"))]

\* bot.send_message raised: the exception leaves both loops (main.py:2258).
SendFail(job) ==
    /\ jobs[job].pc = "send"
    /\ jobs' = [jobs EXCEPT ![job] = Ended(Logged(jobs[job], "send_failed"), "raised")]

(***************************************************************************)
(* Initial state: main() has run load_subscriptions and                    *)
(* load_user_preferences with no saved files, init_db has created empty    *)
(* tables.                                                                 *)
(***************************************************************************)
Init ==
    /\ weather_subscriptions = <<>>
    /\ user_preferences = <<>>
    /\ db_subscriptions = {}
    /\ db_user_preferences = {}
    /\ db_weather_stats = {}
    /\ reply = Answer("none", 0, NoCity, "none")
    /\ now = StartTime
    /\ rate_limit_dict = [u \in Users |-> 0]
    /\ rate_limit_lock = [holder |-> 0, waiters |-> <<>>]
    /\ requests = [r \in Requests |-> [pc |-> "new", user |-> 0, at |-> 0, order |-> 0]]
    /\ jobs = [job \in JobKinds |-> IdleJob]
    /\ evaluation = [kind |-> "none", weather |-> Snapshot(20, 0, FALSE, 0, FALSE, 0, 10000, 800),
                     prefs |-> DefaultPrefs, result |-> <<>>]
    /\ stat_appends = <<>>

SubscribeInputs == {NoArg, NotFound} \cup Names

UnsubscribeInputs == {NoArg} \cup Names

\* Arguments of /temprange: around the bounds -50 and 50, and inside them.
TempArgs == {-51, -50, 10, 20, 50, 51}

\* The weather sample of the confirmation fetch: temperature, humidity, wind.
Samples == {[temperature |-> 10, humidity |-> 50, wind_speed |-> 3]}

\* int(time_module.time()): whole seconds.
Timestamp(ticks) == ticks \div TicksPerSecond

\* What a command handler leaves alone.
otherVars == <<now, rate_limit_dict, rate_limit_lock, requests, jobs, evaluation,
               stat_appends>>

Next ==
    \/ \E u \in Users, r \in SubscribeInputs :
           subscribe_command(u, r) /\ UNCHANGED otherVars
    \/ \E u \in Users, r \in SubscribeInputs, ok \in BOOLEAN, s \in Samples :
           subscribe_command_db(u, r, ok, s, Timestamp(now)) /\ UNCHANGED otherVars
    \/ \E u \in Users, c \in UnsubscribeInputs :
           unsubscribe_command(u, c) /\ UNCHANGED otherVars
    \/ \E u \in Users, c \in UnsubscribeInputs :
           unsubscribe_command_db(u, c) /\ UNCHANGED otherVars
    \/ \E u \in Users, wf \in BOOLEAN, mn \in TempArgs, mx \in TempArgs :
           temprange_command(u, wf, mn, mx) /\ UNCHANGED otherVars
    \/ \E u \in Users : preferences_command_db(u) /\ UNCHANGED otherVars

Spec == Init /\ [][Next]_vars

(***************************************************************************)
(* The rate limiter on its own: requests arrive while the clock runs.      *)
(***************************************************************************)
NextLimiter ==
    \/ Tick /\ UNCHANGED <<storeVars, limiterVars, jobs, evaluation, stat_appends>>
    \/ \E r \in Requests, u \in Users :
           RateLimitEnter(r, u) /\ UNCHANGED <<storeVars, jobs, evaluation, stat_appends>>
    \/ \E r \in Requests :
           RateLimitWake(r) /\ UNCHANGED <<storeVars, jobs, evaluation, stat_appends>>
    \/ \E r \in Requests :
           RateLimitAnswered(r) /\ UNCHANGED <<storeVars, jobs, evaluation, stat_appends>>

SpecLimiter == Init /\ [][NextLimiter]_vars

(***************************************************************************)
(* The two /subscribe handlers with the outcomes of the calls they await:  *)
(* the confirmation fetch of the first and the confirmation answer of the  *)
(* second.                                                                 *)
(***************************************************************************)
NextSubscribe ==
    \/ \E u \in Users, r \in SubscribeInputs :
           subscribe_command(u, r) /\ UNCHANGED otherVars
    \/ \E u \in Users, r \in SubscribeInputs :
           subscribe_command_unconfirmed(u, r) /\ UNCHANGED otherVars
    \/ \E u \in Users, r \in SubscribeInputs, ok \in BOOLEAN, s \in Samples :
           subscribe_command_db(u, r, ok, s, Timestamp(now)) /\ UNCHANGED otherVars

SpecSubscribe == Init /\ [][NextSubscribe]_vars

(***************************************************************************)
(* The evaluators on their own, applied to snapshots around every          *)
(* threshold, to one with a visibility of 500 m, to one with a             *)
(* thunderstorm code, and to a few preferences.                            *)
(***************************************************************************)
EvalSnapshots ==
    {Snapshot(t, w, r[1], r[2], sn[1], sn[2], v, id) :
        t \in {-26, -25, -16, -15, 10, 30, 31, 35, 36},
        w \in {0, 3, 5, 15, 16},
        r \in {<<FALSE, 0>>, <<TRUE, 0>>, <<TRUE, 11>>},
        sn \in {<<FALSE, 0>>, <<TRUE, 6>>},
        v \in {10000},
        id \in {800}}
    \cup {Snapshot(10, 3, FALSE, 0, FALSE, 0, 500, 800),
          Snapshot(10, 3, FALSE, 0, FALSE, 0, 10000, 211)}

EvalPrefs ==
    {DefaultPrefs,
     [DefaultPrefs EXCEPT !.activities = <<"running">>],
     [DefaultPrefs EXCEPT !.rain_alerts = FALSE, !.wind_threshold = 4,
                          !.temp_range = [min |-> -25, max |-> 35]],
     [DefaultPrefs EXCEPT !.wind_threshold = 20],
     [DefaultPrefs EXCEPT !.temp_range = [min |-> 10, max |-> 30],
                          !.activities = <<"running", "picnic">>]}

NextEval ==
    \/ \E w \in EvalSnapshots :
           EvaluateAlerts(w)
               /\ UNCHANGED <<storeVars, limiterVars, now, jobs, stat_appends>>
    \/ \E w \in EvalSnapshots, p \in EvalPrefs :
           EvaluateSmart(w, p)
               /\ UNCHANGED <<storeVars, limiterVars, now, jobs, stat_appends>>

SpecEval == Init /\ [][NextEval]_vars

(***************************************************************************)
(* The sweeps, with the in-memory /subscribe, /unsubscribe and /notifytime *)
(* running between their steps.  User 1 can hold two locations, user 2 one.*)
(***************************************************************************)
SweepInputs ==
    {<<1, <<"moscow", "lower">> >>, <<1, <<"kazan", "lower">> >>, <<2, <<"moscow", "lower">> >>}

\* The /unsubscribe that runs between the steps of a sweep.
SweepRemovals == {<<1, <<"moscow", "lower">> >>}

\* The wall-clock hours at which the scheduler fires a job.
Hours == {9, 10}

\* A snapshot that fires no rule and one that fires the heat and wind rules.
SweepSnapshots ==
    {Snapshot(20, 0, FALSE, 0, FALSE, 0, 10000, 800),
     Snapshot(36, 16, FALSE, 0, FALSE, 0, 10000, 800)}

sweepOther == <<limiterVars, now, evaluation, stat_appends>>

NextSweep ==
    \/ \E x \in SweepInputs :
           subscribe_command(x[1], x[2]) /\ UNCHANGED <<sweepOther, jobs>>
    \/ \E x \in SweepRemovals :
           unsubscribe_command(x[1], x[2]) /\ UNCHANGED <<sweepOther, jobs>>
    \/ \E u \in Users :
           notifytime_command(u, TRUE, <<10, 0>>) /\ UNCHANGED <<sweepOther, jobs>>
    \/ \E job \in JobKinds, hour \in Hours :
           SweepStart(job, hour) /\ UNCHANGED <<sweepOther, storeVars>>
    \/ \E job \in JobKinds, w \in SweepSnapshots :
           FetchOk(job, w) /\ UNCHANGED <<sweepOther, storeVars>>
    \/ \E job \in JobKinds : FetchFail(job) /\ UNCHANGED <<sweepOther, storeVars>>
    \/ \E job \in JobKinds : EvalFail(job) /\ UNCHANGED <<sweepOther, storeVars>>
    \/ \E job \in JobKinds : SendOk(job) /\ UNCHANGED <<sweepOther, storeVars>>
    \/ \E job \in JobKinds : SendFail(job) /\ UNCHANGED <<sweepOther, storeVars>>

SpecSweep == Init /\ [][NextSweep]_vars

\* The call a sweep awaits comes back: get_weather_data answers within
\* API_TIMEOUT (main.py:141, 2348) or fails, and bot.send_message returns or
\* raises.
Answers(job) ==
    /\ \/ \E w \in SweepSnapshots : FetchOk(job, w)
       \/ FetchFail(job)
       \/ EvalFail(job)
       \/ SendOk(job)
       \/ SendFail(job)
    /\ UNCHANGED <<sweepOther, storeVars>>

\* The sweeps with /subscribe and /unsubscribe between their steps.
NextSweepFair ==
    \/ \E x \in SweepInputs :
           subscribe_command(x[1], x[2]) /\ UNCHANGED <<sweepOther, jobs>>
    \/ \E x \in SweepRemovals :
           unsubscribe_command(x[1], x[2]) /\ UNCHANGED <<sweepOther, jobs>>
    \/ \E job \in JobKinds, hour \in Hours :
           SweepStart(job, hour) /\ UNCHANGED <<sweepOther, storeVars>>
    \/ \E job \in JobKinds : Answers(job)

\* The event loop resumes a coroutine whose awaited call has come back.
SpecSweepFair ==
    Init /\ [][NextSweepFair]_vars /\ \A job \in JobKinds : WF_vars(Answers(job))

(***************************************************************************)
(* The statistics: /subscribe with the sqlite store is the one caller of   *)
(* save_weather_stats (main.py:1404).  stat_appends records its calls.     *)
(***************************************************************************)
MaxAppends == 26

StatsNames == {<<"moscow", "lower">>}

NextStats ==
    \/ Tick /\ UNCHANGED <<storeVars, limiterVars, jobs, evaluation, stat_appends>>
    \/ \E r \in StatsNames, ok \in BOOLEAN, s \in Samples :
           /\ Len(stat_appends) < MaxAppends
           /\ subscribe_command_db(1, r, ok, s, Timestamp(now))
           /\ stat_appends' =
                  IF reply'.msg = "Added"
                  THEN Append(stat_appends, [city |-> r, timestamp |-> Timestamp(now)])
                  ELSE stat_appends
           /\ UNCHANGED <<limiterVars, now, jobs, evaluation>>

SpecStats == Init /\ [][NextStats]_vars

(***************************************************************************)
(* The preference commands on their own.                                   *)
(***************************************************************************)
\* Arguments of /notifytime: "09:00", "10:00", "9:5", "24:00", "09:60" and
\* "0900".
TimeTexts ==
    {TimeText(2, 9, 2, 0, TRUE), TimeText(2, 10, 2, 0, TRUE), TimeText(1, 9, 1, 5, TRUE),
     TimeText(2, 24, 2, 0, TRUE), TimeText(2, 9, 2, 60, TRUE), TimeText(2, 9, 2, 0, FALSE)}

\* Arguments of /wind: around the bounds 0 and 50, and inside them.
WindArgs == {-1, 0, 10, 50, 51}

\* The activities whose buttons are pressed.
ActivityButtons == {"running", "picnic"}

NextPrefs ==
    \/ \E u \in Users : preferences_command_db(u) /\ UNCHANGED otherVars
    \/ \E u \in Users : preferences_command(u) /\ UNCHANGED otherVars
    \/ \E u \in Users, wf \in BOOLEAN, mn \in TempArgs, mx \in TempArgs :
           temprange_command(u, wf, mn, mx) /\ UNCHANGED otherVars
    \/ \E u \in Users, t \in TimeTexts :
           notifytime_command(u, strptime_HM(t), <<t.hour, t.minute>>)
               /\ UNCHANGED otherVars
    \/ \E u \in Users, wf \in BOOLEAN, w \in WindArgs :
           wind_command(u, wf, w) /\ UNCHANGED otherVars
    \/ \E u \in Users, wf \in BOOLEAN, on \in BOOLEAN :
           rainalerts_command(u, wf, on) /\ UNCHANGED otherVars
    \/ \E u \in Users, a \in ActivityButtons :
           process_activity_callback(u, a) /\ UNCHANGED otherVars

SpecPrefs == Init /\ [][NextPrefs]_vars

(***************************************************************************)
(* The cap of five subscriptions is exercised with one user and six        *)
(* locations.                                                              *)
(***************************************************************************)
CapUsers == {1}

CapNames == {"c1", "c2", "c3", "c4", "c5", "c6"} \X {"lower"}

NextCap ==
    \/ \E u \in CapUsers, r \in {NotFound} \cup CapNames :
           subscribe_command(u, r) /\ UNCHANGED otherVars
    \/ \E u \in CapUsers, r \in {NotFound} \cup CapNames, ok \in BOOLEAN, s \in Samples :
           subscribe_command_db(u, r, ok, s, Timestamp(now)) /\ UNCHANGED otherVars
    \/ \E u \in CapUsers, c \in CapNames :
           unsubscribe_command(u, c) /\ UNCHANGED otherVars

SpecCap == Init /\ [][NextCap]_vars

(***************************************************************************)
(* Claims.                                                                 *)
(***************************************************************************)

\* C1: no reachable state holds two subscriptions of one user whose names
\* are equal case-insensitively, in the in-memory dict or in the sqlite
\* table, whatever sequence of subscribe and unsubscribe commands ran.
C1_NoDuplicateSubscription ==
    /\ \A i \in 1..Len(weather_subscriptions) :
           LET cities == weather_subscriptions[i].v
           IN  \A a, b \in 1..Len(cities) :
                   Lower(cities[a]) = Lower(cities[b]) => a = b
    /\ \A r1, r2 \in db_subscriptions :
           (r1.user_id = r2.user_id /\ Lower(r1.city) = Lower(r2.city)) => r1 = r2

\* C1 witness: a user subscribed a second time to a location, under a name
\* that differs in letter case from the stored one, and holds it once.
C1_Witness ==
    /\ reply.op = "subscribe"
    /\ reply.msg = "AlreadyExists"
    /\ LET cities == SubsOf(weather_subscriptions, reply.to)
       IN  /\ reply.city \notin SeqRange(cities)
           /\ Cardinality({i \in 1..Len(cities) : Lower(cities[i]) = Lower(reply.city)}) = 1

\* C2: an add by a user who holds 5 subscriptions, of a location the user is
\* not subscribed to, answers CapExceeded and leaves the 5 unchanged
\* (stated for both subscribe handlers).
C2_CapExceeded ==
    [][\A u \in CapUsers, r \in CapNames :
           /\ ( /\ subscribe_command(u, r)
                /\ Len(SubsOf(weather_subscriptions, u)) = 5
                /\ ~AlreadyInList(SubsOf(weather_subscriptions, u), r) )
              => ( /\ reply'.msg = "CapExceeded"
                   /\ SubsOf(weather_subscriptions', u) = SubsOf(weather_subscriptions, u) )
           /\ ( /\ \E ok \in BOOLEAN, s \in Samples :
                       subscribe_command_db(u, r, ok, s, Timestamp(now))
                /\ Cardinality(get_user_subscriptions(db_subscriptions, u)) = 5
                /\ ~AlreadySubscribed(get_user_subscriptions(db_subscriptions, u), r) )
              => ( /\ reply'.msg = "CapExceeded"
                   /\ db_subscriptions' = db_subscriptions )
      ]_vars

\* The requests that passed the check before request r did.
C3_CheckedBefore(r) ==
    {q \in Requests : requests[q].order > 0 /\ requests[q].order < requests[r].order}

\* The accepted requests of r's user that passed the check before r.
C3_AcceptedBefore(r) ==
    {q \in C3_CheckedBefore(r) : requests[q].user = requests[r].user /\ requests[q].pc = "accepted"}

\* The time of the last accepted request of r's user before r.
C3_LastAccepted(r) ==
    LET q == CHOOSE x \in C3_AcceptedBefore(r) :
                 \A y \in C3_AcceptedBefore(r) : requests[y].order <= requests[x].order
    IN  requests[q].at

\* C3: a user's request is accepted when the user has no accepted request
\* yet (cold start), rejected when it comes less than the limit after the
\* user's last accepted request, and accepted when it comes at least the
\* limit after it.
C3_RateLimitWindow ==
    \A r \in Requests :
        requests[r].order > 0 =>
            IF C3_AcceptedBefore(r) = {}
            THEN requests[r].pc = "accepted"
            ELSE (requests[r].pc = "accepted") <=> (requests[r].at - C3_LastAccepted(r) >= Limit)

\* C3 witness: one user's first request was accepted, the second, less than
\* the limit later, rejected, and the third, the limit after the first,
\* accepted.
C3_Witness ==
    /\ requests[1].user = requests[2].user
    /\ requests[2].user = requests[3].user
    /\ requests[1].pc = "accepted" /\ requests[1].order = 1
    /\ requests[2].pc = "rejected" /\ requests[2].order = 2
    /\ requests[2].at - requests[1].at < Limit
    /\ requests[3].pc = "accepted" /\ requests[3].order = 3
    /\ requests[3].at - requests[1].at = Limit
\* How many messages of a kind a result holds.
C4_Count(result, kind) == Cardinality({i \in 1..Len(result) : result[i].kind = kind})

\* C4: the alert evaluation yields exactly one heat warning for every
\* snapshot with temp > 30, exactly one cold warning for every snapshot with
\* temp < -15, no temperature warning otherwise; with wind 5 and no rain it
\* yields no wind or rain message.
C4_TemperatureAlerts ==
    evaluation.kind = "alerts" =>
        LET w == evaluation.weather
            a == evaluation.result
        IN  /\ C4_Count(a, "heat") = IF w.temp > 30 THEN 1 ELSE 0
            /\ C4_Count(a, "cold") = IF w.temp < -15 THEN 1 ELSE 0
            /\ (w.wind_speed = 5 /\ ~w.has_rain)
                  => (C4_Count(a, "storm_wind") = 0 /\ C4_Count(a, "heavy_rain") = 0)

\* C5: for every selected activity of the catalog whose conditions the
\* snapshot meets, the smart evaluation's result holds one suitability
\* message that lists the activity.
C5_ActivitySuitability ==
    evaluation.kind = "smart" =>
        \A activity \in SeqRange(evaluation.prefs.activities) \cap DOMAIN ACTIVITIES :
            Suitable(activity, evaluation.weather)
                => /\ C4_Count(evaluation.result, "suitable") = 1
                   /\ \E i \in 1..Len(evaluation.result) :
                          /\ evaluation.result[i].kind = "suitable"
                          /\ activity \in evaluation.result[i].about
\* The samples appended for a city, in the order of the calls.
C6_Appended(city) ==
    LET OfCity(a) == a.city = city
    IN  SelectSeq(stat_appends, OfCity)

\* The samples the weather_stats table retains for a city.
C6_Retained(city) == {r \in db_weather_stats : r.city = city}

\* C6: after any sequence of stat appends for one location at most 24
\* samples are retained for it; after the 25th append exactly 24 are
\* retained, and the sample with the earliest timestamp is not among them.
C6_StatsRetention ==
    \A city \in StatsNames :
        /\ Cardinality(C6_Retained(city)) <= 24
        /\ Len(C6_Appended(city)) = 25 =>
               /\ Cardinality(C6_Retained(city)) = 24
               /\ C6_Appended(city)[1].timestamp < C6_Appended(city)[2].timestamp
                      => C6_Appended(city)[1].timestamp
                             \notin {r.timestamp : r \in C6_Retained(city)}

\* C7: a smart sweep that ticks at wall-clock hour h evaluates every
\* subscription of a user whose notification_time has hour h, and sends
\* nothing to a user whose notification_time has another hour.
C7_HourMatching ==
    [][\A h \in Hours :
           ( /\ SweepStart("send_smart_notifications", h)
             /\ jobs'["send_smart_notifications"].pc = "idle" )
           => \A i \in 1..Len(weather_subscriptions) :
                  LET u == weather_subscriptions[i].k
                      t == StoredPrefs(db_user_preferences, u).notification_time
                      log == jobs'["send_smart_notifications"].log
                  IN  /\ t[1] = h =>
                             \A c \in SeqRange(weather_subscriptions[i].v) :
                                 \E k \in 1..Len(log) :
                                     /\ log[k].user = u /\ log[k].city = c
                                     /\ log[k].status \in {"quiet", "sent"}
                      /\ t[1] # h =>
                             \A k \in 1..Len(log) :
                                 log[k].user = u => log[k].status # "sent"
      ]_vars

\* C8: an accepted setTempRange(u, min, max) followed by get(u) returns
\* temp_min = min, temp_max = max and every other field as it was before.
C8_TempRangeRoundTrip ==
    [][\A u \in Users, mn \in TempArgs, mx \in TempArgs :
           (temprange_command(u, TRUE, mn, mx) /\ reply'.msg = "Ok")
               => StoredPrefs(db_user_preferences', u) =
                      [StoredPrefs(db_user_preferences, u)
                           EXCEPT !.temp_range = [min |-> mn, max |-> mx]]
      ]_vars

\* The pairs a sweep has reached.
C9_Reached(j) == {[user |-> j.log[k].user, city |-> j.log[k].city] : k \in 1..Len(j.log)}

\* C9: a sweep in which the fetch for a pair failed has, when it ends,
\* skipped that pair and fetched every other subscription it started with.
C9_FetchFailureIsolated ==
    \A job \in JobKinds :
        LET j == jobs[job]
        IN  ( /\ j.pc = "idle" /\ j.result # "none"
              /\ \E k \in 1..Len(j.log) : j.log[k].status = "skipped" )
            => j.pairs \subseteq C9_Reached(j)

\* C10: a sweep in which the delivery for a pair failed has, when it ends,
\* processed every other subscription it started with.
C10_DeliveryFailureIsolated ==
    \A job \in JobKinds :
        LET j == jobs[job]
        IN  ( /\ j.pc = "idle" /\ j.result # "none"
              /\ \E k \in 1..Len(j.log) : j.log[k].status = "send_failed" )
            => \A p \in j.pairs :
                   \E k \in 1..Len(j.log) :
                       /\ j.log[k].user = p.user /\ j.log[k].city = p.city

\* C11: an add that answers Added has stored the location: the user's
\* subscriptions hold it right after the add, and keep holding it through
\* every step that is not a remove by that user (stated for both subscribe
\* handlers and their stores).
C11_AddedPersists ==
    [][\A u \in Users, r \in Names :
           /\ (subscribe_command(u, r) /\ reply'.msg = "Added")
                  => r \in SeqRange(SubsOf(weather_subscriptions', u))
           /\ ( /\ \E ok \in BOOLEAN, s \in Samples :
                       subscribe_command_db(u, r, ok, s, Timestamp(now))
                /\ reply'.msg = "Added" )
                  => r \in get_user_subscriptions(db_subscriptions', u)
           /\ ( /\ r \in SeqRange(SubsOf(weather_subscriptions, u))
                /\ ~(\E c \in UnsubscribeInputs : unsubscribe_command(u, c)) )
                  => r \in SeqRange(SubsOf(weather_subscriptions', u))
           /\ ( /\ r \in get_user_subscriptions(db_subscriptions, u)
                /\ ~(\E c \in UnsubscribeInputs : unsubscribe_command_db(u, c)) )
                  => r \in get_user_subscriptions(db_subscriptions', u)
      ]_vars

\* C12: a remove by a user who holds a subscription matching the name
\* case-insensitively answers Removed, after which the user's subscriptions
\* hold no match and are otherwise the same, as are all other users'; a
\* remove with no match answers that nothing was found and leaves the store
\* unchanged (stated for both unsubscribe handlers and their stores; every
\* step of either handler answers with op "unsubscribe").
C12_Remove ==
    [][reply'.op = "unsubscribe" => \A u \in Users, c \in Names :
           /\ unsubscribe_command(u, c) =>
                  LET before == SubsOf(weather_subscriptions, u)
                      after  == SubsOf(weather_subscriptions', u)
                      Other(x) == Lower(x) # Lower(c)
                  IN  IF \E i \in 1..Len(before) : Lower(before[i]) = Lower(c)
                      THEN /\ reply'.msg = "Removed"
                           /\ after = SelectSeq(before, Other)
                           /\ \A v \in Users \ {u} :
                                  SubsOf(weather_subscriptions', v)
                                      = SubsOf(weather_subscriptions, v)
                      ELSE /\ reply'.msg \in {"NotFound", "NoSubscriptions"}
                           /\ weather_subscriptions' = weather_subscriptions
           /\ unsubscribe_command_db(u, c) =>
                  LET before == get_user_subscriptions(db_subscriptions, u)
                  IN  IF \E x \in before : Lower(x) = Lower(c)
                      THEN /\ reply'.msg = "Removed"
                           /\ db_subscriptions' =
                                  {r \in db_subscriptions :
                                      ~(r.user_id = u /\ Lower(r.city) = Lower(c))}
                      ELSE /\ reply'.msg \in {"NotFound", "NoSubscriptions"}
                           /\ db_subscriptions' = db_subscriptions
      ]_vars

\* C12 witness: a remove answered Removed for a name the user held next to
\* another subscription, which the user still holds.
C12_Witness ==
    /\ reply.op = "unsubscribe"
    /\ reply.msg = "Removed"
    /\ Len(SubsOf(weather_subscriptions, reply.to)) = 1
    /\ \A i \in 1..Len(SubsOf(weather_subscriptions, reply.to)) :
           Lower(SubsOf(weather_subscriptions, reply.to)[i]) # Lower(reply.city)

\* C13: a get for a user with no stored preferences shows the defaults and
\* leaves exactly one stored entry for the user, holding the defaults
\* (stated for both /preferences handlers and their stores).
C13_GetCreatesDefault ==
    [][reply'.op = "preferences" => \A u \in Users :
           /\ ( /\ preferences_command_db(u)
                /\ get_user_preferences_db(db_user_preferences, u) = {} )
                  => /\ reply'.shown = {DefaultPrefs}
                     /\ {r \in db_user_preferences' : r.user_id = u}
                            = {PrefsRow(u, DefaultPrefs)}
           /\ ( /\ preferences_command(u)
                /\ ~DictHas(user_preferences, u) )
                  => /\ reply'.shown = {DefaultPrefs}
                     /\ Cardinality({i \in 1..Len(user_preferences') :
                                        user_preferences'[i].k = u}) = 1
                     /\ DictGet(user_preferences', u) = DefaultPrefs
      ]_vars

\* The bounds of C14 on a temperature range and a wind threshold.
C14_Valid(temp_min, temp_max, wind_threshold) ==
    /\ temp_min < temp_max
    /\ -50 <= temp_min /\ temp_max <= 50
    /\ 0 <= wind_threshold /\ wind_threshold <= 50

\* C14: in every reachable state every stored preference has
\* temp_min < temp_max, both in [-50, 50], and 0 <= wind_threshold <= 50;
\* /temprange with min >= max or a value out of bounds and /wind with a
\* negative value or one above 50 are rejected, and a rejected call leaves
\* the stored preferences unchanged.
C14_PreferenceBounds ==
    /\ [](/\ \A r \in db_user_preferences :
                 C14_Valid(r.temp_min, r.temp_max, r.wind_threshold)
          /\ \A i \in 1..Len(user_preferences) :
                 LET p == user_preferences[i].v
                 IN  C14_Valid(p.temp_range.min, p.temp_range.max, p.wind_threshold))
    /\ [][/\ reply'.op = "temprange" =>
                 \A u \in Users, mn \in TempArgs, mx \in TempArgs :
                     ( /\ temprange_command(u, TRUE, mn, mx)
                       /\ (mn >= mx \/ mn < -50 \/ mx > 50) )
                         => /\ reply'.msg = "InvalidRange"
                            /\ UNCHANGED <<db_user_preferences, user_preferences>>
          /\ reply'.op = "wind" =>
                 \A u \in Users, w \in WindArgs :
                     ( /\ wind_command(u, TRUE, w)
                       /\ (w < 0 \/ w > 50) )
                         => /\ reply'.msg = "InvalidThreshold"
                            /\ UNCHANGED <<db_user_preferences, user_preferences>>
        ]_vars

\* C14 witness: a /temprange of a user with stored preferences was rejected.
C14_Witness ==
    /\ reply.op = "temprange"
    /\ reply.msg = "InvalidRange"
    /\ DictHas(user_preferences, reply.to)

\* Whether a text is a well-formed "HH:MM" time: two digits, a colon, two
\* digits, hour at most 23 and minute at most 59.
C15_WellFormed(text) ==
    /\ text.colon
    /\ text.hour_digits = 2 /\ text.hour <= 23
    /\ text.minute_digits = 2 /\ text.minute <= 59

\* C15: /notifytime with a text that is not a well-formed "HH:MM" time is
\* rejected and leaves the preference stores unchanged; with a well-formed
\* time the user's stored preferences hold that time afterwards and are
\* otherwise as before.
C15_NotificationTime ==
    [][reply'.op = "notifytime" => \A u \in Users, t \in TimeTexts :
           notifytime_command(u, strptime_HM(t), <<t.hour, t.minute>>) =>
               IF C15_WellFormed(t)
               THEN StoredPrefs(db_user_preferences', u) =
                        [StoredPrefs(db_user_preferences, u)
                             EXCEPT !.notification_time = <<t.hour, t.minute>>]
               ELSE /\ reply'.msg = "InvalidTime"
                    /\ UNCHANGED <<db_user_preferences, user_preferences>>
      ]_vars

\* C16: a toggle of an activity adds it to the user's stored activities when
\* it is absent and removes it when it is present, changes no other
\* activity, and leaves the stored activities without duplicates.
C16_ToggleActivity ==
    [][reply'.op = "activity" => \A u \in Users, a \in ActivityButtons :
           process_activity_callback(u, a) =>
               LET before == StoredPrefs(db_user_preferences, u).activities
                   after  == StoredPrefs(db_user_preferences', u).activities
               IN  /\ SeqRange(after) =
                          IF a \in SeqRange(before)
                          THEN SeqRange(before) \ {a}
                          ELSE SeqRange(before) \cup {a}
                   /\ \A i, j \in 1..Len(after) : after[i] = after[j] => i = j
      ]_vars

\* C17: in both sweeps a pair whose evaluation yields an empty list is
\* logged without a notification, a sweep that is about to send holds at
\* least one message, and every delivery follows such a state.
C17_NoEmptyNotification ==
    /\ [](\A job \in JobKinds : jobs[job].pc = "send" => jobs[job].alerts # <<>>)
    /\ [][\A job \in JobKinds :
              /\ \A w \in SweepSnapshots :
                     ( /\ FetchOk(job, w)
                       /\ <<>> = IF job = "send_smart_notifications"
                                 THEN check_smart_notifications(
                                          w, PrefsOrDefault(jobs[job].prefs))
                                 ELSE check_weather_alerts(w) )
                       => /\ jobs'[job].pc # "send"
                          /\ jobs'[job].log[Len(jobs'[job].log)].status = "quiet"
              /\ ( /\ jobs'[job].log # jobs[job].log
                   /\ jobs'[job].log # <<>>
                   /\ jobs'[job].log[Len(jobs'[job].log)].status
                          \in {"sent", "send_failed"} )
                     => jobs[job].pc = "send"
        ]_vars

\* C17 witness: one sweep has evaluated a pair to an empty list, sending
\* nothing, and has sent a notification for another pair.
C17_Witness ==
    \E job \in JobKinds :
        \E a, b \in 1..Len(jobs[job].log) :
            /\ jobs[job].log[a].status = "quiet"
            /\ jobs[job].log[b].status = "sent"

\* C18: of the requests of one user whose checks fall within one limit
\* window, whatever the order in which they took the lock, at most one is
\* accepted.
C18_OneAcceptedPerWindow ==
    \A r1, r2 \in Requests :
        ( /\ r1 # r2
          /\ requests[r1].user = requests[r2].user
          /\ requests[r1].pc = "accepted"
          /\ requests[r2].pc = "accepted"
          /\ requests[r1].order < requests[r2].order )
        => requests[r2].at - requests[r1].at >= Limit

\* C18 witness: three requests of one user are in flight within one window:
\* one was accepted, one is being rejected with the lock held, and one waits
\* for the lock.
C18_Witness ==
    \E r1, r2, r3 \in Requests :
        /\ requests[r1].user = requests[r2].user
        /\ requests[r2].user = requests[r3].user
        /\ requests[r1].pc = "accepted"
        /\ requests[r2].pc = "answering"
        /\ requests[r2].at - requests[r1].at < Limit
        /\ requests[r3].pc = "waiting"

\* A pair that an /unsubscribe running between the steps of a sweep removes.
C19_Removable(pair) ==
    \E x \in SweepRemovals : x[1] = pair.user /\ Lower(x[2]) = Lower(pair.city)

\* C19: an alert sweep processes only subscriptions held when it started,
\* none of them twice, and when it ends it has processed every one of them
\* that no interleaved /unsubscribe removes.
C19_SweepSnapshot ==
    LET j == jobs["send_weather_alerts"]
    IN  /\ C9_Reached(j) \subseteq j.pairs
        /\ \A k1, k2 \in 1..Len(j.log) :
               (j.log[k1].user = j.log[k2].user /\ j.log[k1].city = j.log[k2].city)
                   => k1 = k2
        /\ (j.pc = "idle" /\ j.result # "none")
               => \A pair \in j.pairs : ~C19_Removable(pair) => pair \in C9_Reached(j)

\* C20: a sweep that has started eventually returns to the scheduler, either
\* after its loops ran out or after the handler around them caught the
\* failure of a fetch, an evaluation or a delivery.
C20_SweepReturns ==
    \A job \in JobKinds :
        (jobs[job].pc # "idle")
            ~> (jobs[job].pc = "idle" /\ jobs[job].result \in {"completed", "raised"})

\* C20 witness: the alert sweep has returned after a delivery or an
\* evaluation failed.
C20_Witness ==
    LET j == jobs["send_weather_alerts"]
    IN  /\ j.pc = "idle"
        /\ j.result = "raised"
        /\ j.log # <<>>
        /\ j.log[Len(j.log)].status \in {"send_failed", "eval_failed"}

\* C21: every step of the alert sweep in which a fetch succeeded makes one
\* save_weather_stats call for the location of the subscription.
C21_SweepAppendsSample ==
    [][\A w \in SweepSnapshots :
           (jobs["send_weather_alerts"].pc = "fetch" /\ FetchOk("send_weather_alerts", w))
               => /\ Len(stat_appends') = Len(stat_appends) + 1
                  /\ stat_appends'[Len(stat_appends')].city = jobs["send_weather_alerts"].city
      ]_vars

\* C22: the alert evaluation holds one storm-wind warning exactly when
\* wind_speed > 15, and the smart evaluation holds one wind notice exactly
\* when wind_speed is above the user's wind_threshold, whichever side of 15
\* the wind and the threshold are on.
C22_IndependentWindChecks ==
    /\ evaluation.kind = "alerts" =>
           C4_Count(evaluation.result, "storm_wind") =
               IF evaluation.weather.wind_speed > 15 THEN 1 ELSE 0
    /\ evaluation.kind = "smart" =>
           /\ C4_Count(evaluation.result, "wind_notice") =
                  IF evaluation.weather.wind_speed > evaluation.prefs.wind_threshold
                  THEN 1 ELSE 0
           /\ C4_Count(evaluation.result, "storm_wind") = 0

\* C22 witness: a smart evaluation of a wind above both thresholds gave the
\* wind notice.
C22_Witness ==
    /\ evaluation.kind = "smart"
    /\ evaluation.weather.wind_speed > 15
    /\ evaluation.weather.wind_speed > evaluation.prefs.wind_threshold
    /\ C4_Count(evaluation.result, "wind_notice") = 1

\* The five alert rule groups: extreme temperature, storm wind,
\* precipitation, low visibility, thunderstorm code.
C23_RuleGroups(w) ==
    (IF w.temp > 30 THEN <<Message("heat")>>
     ELSE IF w.temp < -15 THEN <<Message("cold")>>
     ELSE <<>>)
        \o Emit(w.wind_speed > 15, "storm_wind")
        \o Emit(w.has_rain /\ w.rain_1h > 10, "heavy_rain")
        \o Emit(w.has_snow /\ w.snow_1h > 5, "heavy_snow")
        \o Emit(w.visibility < 1000, "low_visibility")
        \o Emit(w.weather_id \in 200..299, "thunderstorm")

\* C23: the messages of the alert evaluation of a snapshot are those of the
\* five rule groups applied to it.
C23_AlertRuleGroups ==
    evaluation.kind = "alerts" => evaluation.result = C23_RuleGroups(evaluation.weather)

C25_Group(kind) ==
    CASE kind \in {"heat", "cold"} -> 1
      [] kind \in {"storm_wind", "wind_notice"} -> 2
      [] kind \in {"heavy_rain", "heavy_snow"} -> 3
      [] kind = "low_visibility" -> 4
      [] kind = "thunderstorm" -> 5
      [] kind \in {"temp_below", "temp_above", "rain_notice"} -> 6
      [] OTHER -> 7

\* C25: in the result of an evaluation no message of a later rule group
\* precedes a message of an earlier one.
C25_RuleGroupOrder ==
    \A i, k \in 1..Len(evaluation.result) :
        i < k => C25_Group(evaluation.result[i].kind) <= C25_Group(evaluation.result[k].kind)

\* C26: while the rejection answer to one user is being sent, no request of
\* another user waits for the lock.
C26_NoLockAcrossAnswer ==
    \A r, q \in Requests :
        (requests[r].pc = "answering" /\ requests[q].pc = "waiting")
            => requests[q].user = requests[r].user

\* The time of the last accepted request of a user, 0 when there is none.
C28_LastAcceptedAt(u) ==
    LET accepted == {requests[r].at : r \in {q \in Requests :
                         requests[q].pc = "accepted" /\ requests[q].user = u}}
    IN  IF accepted = {} THEN 0 ELSE CHOOSE t \in accepted : \A x \in accepted : x <= t

\* C28: a user's entry is always the time of the user's last accepted
\* request, however many requests were rejected since; a step that rejects
\* a request changes no entry, and a step that accepts one sets the entry of
\* its user to now and no other.
C28_RejectionLeavesEntries ==
    /\ [](\A u \in Users : rate_limit_dict[u] = C28_LastAcceptedAt(u))
    /\ [][\A r \in Requests :
              /\ ( /\ requests'[r].pc # requests[r].pc
                   /\ requests'[r].pc \in {"answering", "rejected"} )
                     => rate_limit_dict' = rate_limit_dict
              /\ (requests[r].pc # "accepted" /\ requests'[r].pc = "accepted")
                     => rate_limit_dict' =
                            [rate_limit_dict EXCEPT ![requests'[r].user] = now]
         ]_vars

\* C28 witness: two requests of a user were rejected after an accepted one,
\* and the next one, the limit after the accepted one, was accepted.
C28_Witness ==
    /\ \A r \in Requests : requests[r].user = requests[1].user /\ requests[r].order = r
    /\ requests[1].pc = "accepted"
    /\ requests[2].pc = "rejected"
    /\ requests[3].pc = "rejected"
    /\ requests[4].pc = "accepted"
    /\ requests[4].at - requests[1].at = Limit

\* How many notifications a log holds for a user and a city.
C27_Sent(log, u, c) ==
    Cardinality({k \in 1..Len(log) :
                    log[k].user = u /\ log[k].city = c /\ log[k].status = "sent"})

C29_AtMostFive ==
    \A u \in Users :
        /\ Len(SubsOf(weather_subscriptions, u)) <= 5
        /\ Cardinality(get_user_subscriptions(db_subscriptions, u)) <= 5

\* What the stores hold for a user: the in-memory list and preferences, and
\* the rows of the subscriptions and user_preferences tables.
C30_Held(subs, prefs, db_subs, db_prefs, u) ==
    <<SubsOf(subs, u),
      IF DictHas(prefs, u) THEN {DictGet(prefs, u)} ELSE {},
      get_user_subscriptions(db_subs, u),
      get_user_preferences_db(db_prefs, u)>>

\* C30: a /subscribe that answers with the failure message leaves what the
\* stores hold for the user as it was, and a /subscribe changes the user's
\* subscriptions only when it answers with the confirmation.
C30_AllOrNothing ==
    [][\A u \in Users :
           (reply'.op = "subscribe" /\ reply'.to = u /\ reply'.msg # "Added")
               => C30_Held(weather_subscriptions', user_preferences',
                           db_subscriptions', db_user_preferences', u)
                  = C30_Held(weather_subscriptions, user_preferences,
                             db_subscriptions, db_user_preferences, u)
      ]_vars
====
